---- MODULE Spec2Model ----
(***************************************************************************)
(* Word MCP server with SSE transport (src/agent/_MCP/wordMCP/server.py). *)
(*                                                                         *)
(* The model covers the request normalizer, the plan builder, the step    *)
(* orchestrator of POST /sse/agent, the direct call path POST /call, the  *)
(* streamed call POST /sse/call, the bare subscription GET /sse and the   *)
(* document operation backend with its on-disk store.                     *)
(*                                                                         *)
(* Text is a sequence of one-character strings, so that strip, regex      *)
(* substitution, split, truncation and concatenation are computed and not *)
(* assumed.  A character outside ASCII is written as its code point,      *)
(* "U+4E2D", and counts as one character.                                 *)
(***************************************************************************)
EXTENDS Integers, Sequences, FiniteSets, TLC

(***************************************************************************)
(* Bounds of the model.                                                    *)
(***************************************************************************)
\* number of client connections the model tracks
NumConns == 2
\* first reading of the wall clock, in milliseconds since the epoch
ClockStart == 998
\* the clock runs ahead by at most this many milliseconds between two readings
MaxTick == 1
\* number of environment faults injected: a failing load, save or unlink, or the
\* loss of the search permission on WORD_DIR
MaxFaults == 1
\* longest substituted test plan
MaxPlanLen == 2
\* number of direct calls made through POST /call
MaxCalls == 3
\* number of heartbeats a subscription is followed for
MaxBeats == 4

(***************************************************************************)
(* Program constants.                                                      *)
(***************************************************************************)
\* s[:40] in _sanitize_filename
MaxBaseLen == 40
\* len(base_name) < 3 in sse_agent
MinBaseLen == 3
\* timestamp() * 1000 in sse_agent
MsPerSec == 1000
\* asyncio.sleep(30) in event_generator, in seconds
HeartbeatInterval == 30
\* NAME_MAX: the longest file name the file system takes, in bytes
NameMax == 255

Conns == 1..NumConns
MaxClock == ClockStart + MaxTick

\* Python's None; a one-element tuple, so it compares with every text
None == <<"<None>">>

Min(a, b) == IF a < b THEN a ELSE b

(***************************************************************************)
(* Characters and the str methods the server uses.                         *)
(***************************************************************************)
Digits == <<"0", "1", "2", "3", "4", "5", "6", "7", "8", "9">>
DigitChars == {Digits[i] : i \in 1..10}
AsciiLetters == {"a", "b", "c", "d", "e", "o", "t", "x", "R", "B", "H", "T"}
\* the characters of the alphabet that lie in 一-龥 (U+4E00..U+9FA5)
CJKChars == {"U+4E2D", "U+6587", "U+65B0", "U+6863"}
WhitespaceChars == {" ", "\t", "\n"}

\* \w of a Python 3 str pattern: Unicode letters, digits and the underscore;
\* U+00E9 is a letter outside ASCII and outside the CJK range
IsWordChar(c) == c \in AsciiLetters \cup DigitChars \cup CJKChars \cup {"_", "U+00E9"}

\* the class [\w一-龥_-] of _sanitize_filename
IsSafeChar(c) == IsWordChar(c) \/ c \in CJKChars \/ c = "_" \/ c = "-"

\* the positions of s that hold no whitespace
InkPositions(s) == {i \in 1..Len(s) : s[i] \notin WhitespaceChars}

SetMin(S) == CHOOSE x \in S : \A y \in S : x <= y
SetMax(S) == CHOOSE x \in S : \A y \in S : y <= x

\* str.strip()
Strip(s) ==
    IF InkPositions(s) = {} THEN <<>>
    ELSE SubSeq(s, SetMin(InkPositions(s)), SetMax(InkPositions(s)))

\* re.sub(r"\s+", "_", s): every maximal run of whitespace becomes one "_"
CollapseWhitespace(s) ==
    LET mark == [i \in 1..Len(s) |->
                   IF s[i] \notin WhitespaceChars THEN s[i]
                   ELSE IF i = 1 \/ s[i - 1] \notin WhitespaceChars THEN "_"
                   ELSE "<drop>"]
        kept == SelectSeq([i \in 1..Len(s) |-> i], LAMBDA i : mark[i] # "<drop>")
    IN  [k \in 1..Len(kept) |-> mark[kept[k]]]

\* a class that lets the dot of a file extension through
DropUnsafeKeepsDot(s) == SelectSeq(s, LAMBDA c : IsSafeChar(c) \/ c = ".")

\* re.sub(r"[^\w一-龥_-]+", "", s)
DropUnsafe(s) == SelectSeq(s, IsSafeChar)

\* str(n) for n >= 0
RECURSIVE IntToStr(_)
IntToStr(n) ==
    IF n < 10 THEN <<Digits[n + 1]>>
    ELSE IntToStr(n \div 10) \o <<Digits[(n % 10) + 1]>>

\* "\n".join(lines[i:]), lines numbered from 1
RECURSIVE JoinFrom(_, _)
JoinFrom(lines, i) ==
    IF i > Len(lines) THEN <<>>
    ELSE IF i = Len(lines) THEN lines[i]
    ELSE lines[i] \o <<"\n">> \o JoinFrom(lines, i + 1)

\* "\n".join(lines)
JoinLines(lines) == JoinFrom(lines, 1)

\* s.split("\n"): the stretches between the line feeds
SplitLines(s) ==
    LET feeds == SelectSeq([i \in 1..Len(s) |-> i], LAMBDA i : s[i] = "\n")
        n == Len(feeds)
    IN  [k \in 1..(n + 1) |->
           SubSeq(s, IF k = 1 THEN 1 ELSE feeds[k - 1] + 1,
                     IF k = n + 1 THEN Len(s) ELSE feeds[k] - 1)]

\* truthiness of an optional str: None and "" are falsy
Truthy(s) == s # None /\ s # <<>>

(***************************************************************************)
(* Request normalizer: _sanitize_filename and the head of stream_response. *)
(***************************************************************************)
FallbackTitle == <<"U+65B0", "U+6587", "U+6863">>
SyntheticPrefix == <<"d", "o", "c", "_">>

_sanitize_filename(name) ==
    LET s == DropUnsafe(CollapseWhitespace(Strip(name)))
    IN  IF s # <<>> THEN SubSeq(s, 1, Min(MaxBaseLen, Len(s))) ELSE <<>>

\* a title taken as the request gives it, without strip()
NormalizeTitleUnstripped(req) ==
    IF Truthy(req.title) THEN req.title
    ELSE IF Truthy(req.query) THEN req.query ELSE FallbackTitle

\* title = (request.title or "").strip(), else request.query.strip() or the literal
NormalizeTitle(req) ==
    LET t == Strip(IF Truthy(req.title) THEN req.title ELSE <<>>)
    IN  IF t # <<>> THEN t
        ELSE IF Strip(req.query) # <<>> THEN Strip(req.query) ELSE FallbackTitle

\* int(datetime.now().timestamp()) at a clock reading of t milliseconds
Seconds(t) == t \div MsPerSec

\* int(datetime.now().timestamp() * 1000)
Millis(t) == t

\* a suffix with the resolution of the synthetic base: the "* 1000" left out
IdSuffixSeconds(t2) == <<"_">> \o IntToStr(Seconds(t2))

\* f"{base_name}_{...}": the suffix of the identifier, read at t2
IdSuffix(t2) == <<"_">> \o IntToStr(Millis(t2))

\* a threshold that also replaces a base of exactly three characters
BaseNameAtMostThree(req, t1) ==
    LET b == _sanitize_filename(IF Truthy(req.filename) THEN req.filename
                                ELSE NormalizeTitle(req))
    IN  IF b = <<>> \/ Len(b) <= MinBaseLen
        THEN SyntheticPrefix \o IntToStr(Seconds(t1))
        ELSE b

\* base_name: the sanitized filename or title, or doc_<seconds> read at t1
BaseName(req, t1) ==
    LET b == _sanitize_filename(IF Truthy(req.filename) THEN req.filename
                                ELSE NormalizeTitle(req))
    IN  IF b = <<>> \/ Len(b) < MinBaseLen
        THEN SyntheticPrefix \o IntToStr(Seconds(t1))
        ELSE b

\* filename = f"{base_name}_{int(datetime.now().timestamp() * 1000)}"
DocumentId(req, t1, t2) == BaseName(req, t1) \o IdSuffix(t2)

(***************************************************************************)
(* Document operation backend.  The store is the file system: it maps the  *)
(* resolved path of every existing .docx file to its body, a sequence of   *)
(* blocks, each a heading, a paragraph or a table.  A path below the       *)
(* working directory is written relative to it, any other path from the    *)
(* root; a key that ends with "/" is a directory and maps to nothing.  The *)
(* working directory, its ancestors and WORD_DIR always exist.  Two        *)
(* spellings that reach one file resolve to one key.  A paragraph or a     *)
(* heading holds its text in at most one run.  A file that a failed save   *)
(* has left behind is no document: its body is Truncated.  The byte size   *)
(* and the modification time of a file are not modelled, no path is a      *)
(* symbolic link, and every path is shorter than PATH_MAX.                 *)
(*                                                                         *)
(* A handler meets one condition of the environment, its parameter fault:  *)
(* "none"; "access", WORD_DIR has lost its search permission, so that      *)
(* os.stat and open raise EACCES for every path through it; "io", the load *)
(* or the unlink raises, or the save raises before it has opened the file; *)
(* "partial", the save raises after it has opened, and so emptied, the     *)
(* file.                                                                   *)
(***************************************************************************)
DocxSuffix == <<".", "d", "o", "c", "x">>
\* WORD_DIR = Path("word")
WordDir == <<"w", "o", "r", "d">>

EndsWith(s, suf) ==
    Len(s) >= Len(suf) /\ SubSeq(s, Len(s) - Len(suf) + 1, Len(s)) = suf

\* F of the value v, with v computed once
With(v, F(_)) == CHOOSE r \in {F(x) : x \in {v}} : TRUE

\* s.split("/"): the stretches between the slashes
SplitPath(s) ==
    With(SelectSeq([i \in 1..Len(s) |-> i], LAMBDA i : s[i] = "/"), LAMBDA cuts :
      [k \in 1..(Len(cuts) + 1) |->
         SubSeq(s, IF k = 1 THEN 1 ELSE cuts[k - 1] + 1,
                   IF k = Len(cuts) + 1 THEN Len(s) ELSE cuts[k] - 1)])

\* the root of a POSIX path: "/" for an absolute name, "//" for a name that
\* starts with exactly two slashes, nothing for a relative name
PathRoot(s) ==
    IF s = <<>> \/ Head(s) # "/" THEN <<>>
    ELSE IF Len(s) >= 2 /\ s[2] = "/" /\ (Len(s) = 2 \/ s[3] # "/") THEN <<"/", "/">>
    ELSE <<"/">>

\* the components Path keeps: empty stretches and "." are dropped
PathParts(s) == SelectSeq(SplitPath(s), LAMBDA part : part # <<>> /\ part # <<".">>)

\* "/".join(parts)
RECURSIVE JoinParts(_)
JoinParts(parts) ==
    IF parts = <<>> THEN <<>>
    ELSE IF Len(parts) = 1 THEN parts[1]
    ELSE parts[1] \o <<"/">> \o JoinParts(Tail(parts))

\* get_file_path: Path(filename) is normalised, a relative name lives under
\* WORD_DIR, and ".docx" is appended unless the path already ends with it
get_file_path(filename) ==
    With(IF PathRoot(filename) # <<>>
         THEN PathRoot(filename) \o JoinParts(PathParts(filename))
         ELSE JoinParts(<<WordDir>> \o PathParts(filename)),
         LAMBDA p : IF EndsWith(p, DocxSuffix) THEN p ELSE p \o DocxSuffix)

\* the working directory of the server process
Cwd == <<"/", "c", "w", "d">>
CwdParts == PathParts(Cwd)

\* the result of resolving a path that reaches nothing
NoFile == <<>>

IsPrefix(pre, s) == Len(pre) <= Len(s) /\ SubSeq(s, 1, Len(pre)) = pre

\* the key of the file that the absolute components reach
KeyOf(parts) ==
    IF Len(parts) > Len(CwdParts) /\ IsPrefix(CwdParts, parts)
    THEN JoinParts(SubSeq(parts, Len(CwdParts) + 1, Len(parts)))
    ELSE <<"/">> \o JoinParts(parts)

\* the absolute components name an existing directory
IsDirectory(parts, st) ==
    \/ IsPrefix(parts, CwdParts)
    \/ parts = CwdParts \o <<WordDir>>
    \/ \E dir \in {KeyOf(parts) \o <<"/">>} : \E f \in DOMAIN st : IsPrefix(dir, f)

\* the operating system follows the components from cur: ".." steps to the
\* parent, every component before the last has to be a directory
RECURSIVE Walk(_, _, _, _)
Walk(cur, parts, i, st) ==
    IF i >= Len(parts) THEN cur \o <<parts[i]>>
    ELSE With(IF parts[i] = <<".", ".">> THEN SubSeq(cur, 1, Len(cur) - 1)
              ELSE cur \o <<parts[i]>>,
              LAMBDA nxt : IF IsDirectory(nxt, st) THEN Walk(nxt, parts, i + 1, st)
                           ELSE <<>>)

\* the file a path reaches, as open(), exists() and unlink() find it
FileOf(path, st) ==
    With(PathParts(path), LAMBDA parts :
      With(Walk(IF PathRoot(path) # <<>> THEN <<>> ELSE CwdParts, parts, 1, st),
           LAMBDA reached : IF reached = <<>> THEN NoFile ELSE KeyOf(reached)))

\* the file is a directory: it can be neither loaded, written nor unlinked
IsDirFile(file, st) == \E f \in DOMAIN st : IsPrefix(file \o <<"/">>, f)

\* file_path.exists(), for the file the path reaches
FileExists(file, st) == file # NoFile /\ (file \in DOMAIN st \/ IsDirFile(file, st))

\* the answer of file_path.exists() when os.stat raises nothing, or one of the
\* errors exists() ignores (ENOENT, ENOTDIR)
Exists(path, st) == \E file \in {FileOf(path, st)} : FileExists(file, st)

\* the bytes of the UTF-8 encoding of a name
TwoByteChars == {"U+00E9"}
ThreeByteChars == CJKChars \cup {"U+300A", "U+300B"}
ByteLen(name) ==
    Len(name) + Cardinality({i \in 1..Len(name) : name[i] \in TwoByteChars})
              + 2 * Cardinality({i \in 1..Len(name) : name[i] \in ThreeByteChars})

\* str(e) of the OSError of errno ENAMETOOLONG and of errno EACCES
NameTooLong == <<"E:name-too-long">>
AccessError == <<"E:access">>
NoError == <<>>

\* the error the operating system raises while it follows the components from
\* cur: EACCES to look a name up in WORD_DIR when the search permission is
\* denied, ENAMETOOLONG for a name longer than NAME_MAX; a component that is
\* missing ends the walk with ENOENT, which is no error here
RECURSIVE WalkError(_, _, _, _, _)
WalkError(cur, parts, i, st, denied) ==
    IF i > Len(parts) THEN NoError
    ELSE IF denied /\ cur = CwdParts \o <<WordDir>> THEN AccessError
    ELSE IF parts[i] # <<".", ".">> /\ ByteLen(parts[i]) > NameMax THEN NameTooLong
    ELSE IF i = Len(parts) THEN NoError
    ELSE With(IF parts[i] = <<".", ".">> THEN SubSeq(cur, 1, Len(cur) - 1)
              ELSE cur \o <<parts[i]>>,
              LAMBDA nxt : IF IsDirectory(nxt, st)
                           THEN WalkError(nxt, parts, i + 1, st, denied)
                           ELSE NoError)

\* the error of os.stat(path) and of open(path) that is not "no such file"
StatError(path, st, denied) ==
    With(PathParts(path), LAMBDA parts :
      WalkError(IF PathRoot(path) # <<>> THEN <<>> ELSE CwdParts, parts, 1, st, denied))

\* an exists() that answers False whatever os.stat raises
ExistsRaisesNothing(path, st, fault) == NoError

\* what file_path.exists() raises: exists() ignores ENOENT, ENOTDIR, EBADF and
\* ELOOP and passes every other error of os.stat on
ExistsRaises(path, st, fault) == StatError(path, st, fault = "access")

\* the body of a file that a failed save has emptied: not a package that
\* Document() can load
Truncated == <<[kind |-> "truncated", text |-> <<>>, rows |-> <<>>, run |-> FALSE]>>

\* a block made with its text: python-docx adds a run only for a text that
\* is not empty
Heading(level, text) == [kind |-> level, text |-> text, rows |-> <<>>, run |-> text # <<>>]
Paragraph(text) == [kind |-> "p", text |-> text, rows |-> <<>>, run |-> text # <<>>]
Table(rows) == [kind |-> "table", text |-> <<>>, rows |-> rows, run |-> FALSE]

\* str(e) of a fault raised by the file system or by python-docx
IoError == <<"E:io">>
\* str(e) of the TypeError that None raises where a text is required
ArgTypeError == <<"E:type">>
IndexError == <<"E:index">>
\* f"文件不存在: {filename}"
NotFound(filename) == <<"E:not-found:">> \o filename
\* "无效的操作或缺少参数"
InvalidAction == <<"E:invalid-action">>
\* f"未知工具: {tool_name}"
UnknownTool(tool) == <<"E:unknown-tool:", tool>>

Failure(err) == [success |-> FALSE, error |-> err]

\* the value of a keyword argument, or the default None of the signature
Arg(p, name) == IF name \in DOMAIN p THEN p[name] ELSE None

\* v is None, for a v of any type
IsNone(v) == ToString(v) = ToString(None)

\* [line.strip() if line.strip() else "" for line in content.split('\n')]
StrippedParagraphs(content) ==
    LET lines == SplitLines(content)
    IN  [i \in 1..Len(lines) |-> Paragraph(Strip(lines[i]))]

RawParagraphs(content) ==
    LET lines == SplitLines(content)
    IN  [i \in 1..Len(lines) |-> Paragraph(lines[i])]

\* datetime.now().strftime('%Y%m%d_%H%M%S'), one name per second
GeneratedName(t) ==
    <<"d", "o", "c", "u", "m", "e", "n", "t", "_">> \o IntToStr(Seconds(t)) \o DocxSuffix

create_document(p, st, t, fault) ==
    LET filename == IF Truthy(Arg(p, "filename")) THEN p.filename ELSE GeneratedName(t)
        path == get_file_path(filename)
        head == IF Truthy(Arg(p, "title")) THEN <<Heading("h1", p.title)>> ELSE <<>>
        body == IF Truthy(Arg(p, "content")) THEN StrippedParagraphs(p.content) ELSE <<>>
        doc == head \o body
        written(file, d) == [f \in DOMAIN st \cup {file} |-> IF f = file THEN d ELSE st[f]]
    \* doc.save(str(file_path)) opens and writes the file the path reaches
    IN  With(FileOf(path, st), LAMBDA file :
        With(StatError(path, st, fault = "access"), LAMBDA err :
          IF err # NoError
          THEN [result |-> Failure(err), store |-> st]
          ELSE IF fault = "io" \/ file = NoFile \/ IsDirFile(file, st)
          THEN [result |-> Failure(IoError), store |-> st]
          ELSE IF fault = "partial"
          THEN [result |-> Failure(IoError), store |-> written(file, Truncated)]
          ELSE [result |-> [success |-> TRUE, message |-> <<"M:created">>,
                            file_path |-> path],
                store |-> written(file, doc)]))

\* doc.paragraphs: the positions of the blocks that are not tables
ParagraphPositions(doc) ==
    SelectSeq([i \in 1..Len(doc) |-> i], LAMBDA i : doc[i].kind # "table")

read_document(p, st, t, fault) ==
    \* Path(filename) raises for None, inside the try
    IF IsNone(p.filename) THEN [result |-> Failure(ArgTypeError), store |-> st] ELSE
    With(FileOf(get_file_path(p.filename), st), LAMBDA file :
    With(ExistsRaises(get_file_path(p.filename), st, fault), LAMBDA err :
        LET path == get_file_path(p.filename)
            doc == st[file]
            pos == ParagraphPositions(doc)
            paragraphs == [i \in 1..Len(pos) |-> doc[pos[i]].text]
            tpos == SelectSeq([i \in 1..Len(doc) |-> i], LAMBDA i : doc[i].kind = "table")
            tables == [i \in 1..Len(tpos) |-> doc[tpos[i]].rows]
        IN  IF err # NoError
            THEN [result |-> Failure(err), store |-> st]
            ELSE IF ~FileExists(file, st)
            THEN [result |-> Failure(NotFound(p.filename)), store |-> st]
            ELSE IF fault \in {"io", "partial"} \/ IsDirFile(file, st) \/ doc = Truncated
            THEN [result |-> Failure(IoError), store |-> st]
            ELSE [result |-> [success |-> TRUE, file_path |-> path,
                              paragraphs |-> paragraphs, paragraph_count |-> Len(paragraphs),
                              tables |-> tables, table_count |-> Len(tables),
                              full_text |-> JoinLines(paragraphs)],
                  store |-> st]))

\* doc.paragraphs[i] with Python's indexing: 0 on failure (IndexError)
ParagraphAt(doc, i) ==
    LET pos == ParagraphPositions(doc)
        n == Len(pos)
    IN  IF i >= 0 /\ i < n THEN pos[i + 1]
        ELSE IF i < 0 /\ n + i >= 0 THEN pos[n + i + 1]
        ELSE 0

InsertBefore(doc, k, block) ==
    SubSeq(doc, 1, k - 1) \o <<block>> \o SubSeq(doc, k, Len(doc))

update_document(p, st, t, fault) ==
    IF IsNone(p.filename) THEN [result |-> Failure(ArgTypeError), store |-> st] ELSE
    With(FileOf(get_file_path(p.filename), st), LAMBDA file :
    With(ExistsRaises(get_file_path(p.filename), st, fault), LAMBDA err :
        LET path == get_file_path(p.filename)
            doc == st[file]
            content == Arg(p, "content")
            \* paragraph_index is not None: the caller passed an integer
            hasIndex == "paragraph_index" \in DOMAIN p /\ ~IsNone(p.paragraph_index)
            pi == IF hasIndex THEN p.paragraph_index ELSE 0
            n == Len(ParagraphPositions(doc))
            \* doc.save(str(file_path))
            saved(d) ==
                IF fault = "partial"
                THEN [result |-> Failure(IoError), store |-> [st EXCEPT ![file] = Truncated]]
                ELSE [result |-> [success |-> TRUE, message |-> <<"M:updated">>,
                                  action |-> p.action],
                      store |-> [st EXCEPT ![file] = d]]
        IN  IF err # NoError
            THEN [result |-> Failure(err), store |-> st]
            ELSE IF ~FileExists(file, st)
            THEN [result |-> Failure(NotFound(p.filename)), store |-> st]
            \* Document(str(file_path)) raises before the action is examined,
            \* and nothing is saved
            ELSE IF fault = "io" \/ IsDirFile(file, st) \/ doc = Truncated
            THEN [result |-> Failure(IoError), store |-> st]
            ELSE IF p.action = <<"append">> /\ Truthy(content)
            THEN saved(doc \o RawParagraphs(content))
            ELSE IF p.action = <<"add_heading">> /\ Truthy(content)
            THEN saved(doc \o <<Heading("h2", content)>>)
            ELSE IF p.action = <<"insert">> /\ Truthy(content) /\ hasIndex
            THEN IF pi < n
                 THEN IF ParagraphAt(doc, pi) = 0
                      THEN [result |-> Failure(IndexError), store |-> st]
                      ELSE saved(InsertBefore(doc, ParagraphAt(doc, pi), Paragraph(content)))
                 ELSE saved(doc)
            ELSE IF p.action = <<"replace">> /\ hasIndex
            THEN IF pi < n
                 THEN IF ParagraphAt(doc, pi) = 0
                      THEN [result |-> Failure(IndexError), store |-> st]
                      \* para.clear(); para.add_run(content or ""): one run,
                      \* whatever its text
                      ELSE saved([doc EXCEPT ![ParagraphAt(doc, pi)].text =
                                      IF Truthy(content) THEN content ELSE <<>>,
                                  ![ParagraphAt(doc, pi)].run = TRUE])
                 ELSE saved(doc)
            ELSE [result |-> Failure(InvalidAction), store |-> st]))

\* a delete that reports success when there is nothing to delete
delete_document_idempotent(p, st, t, fault) ==
    IF IsNone(p.filename) THEN [result |-> Failure(ArgTypeError), store |-> st] ELSE
    With(FileOf(get_file_path(p.filename), st), LAMBDA file :
    With(ExistsRaises(get_file_path(p.filename), st, fault), LAMBDA err :
        IF err # NoError
        THEN [result |-> Failure(err), store |-> st]
        ELSE IF ~FileExists(file, st)
        THEN [result |-> [success |-> TRUE, message |-> <<"M:deleted">>], store |-> st]
        ELSE IF fault \in {"io", "partial"} \/ IsDirFile(file, st)
        THEN [result |-> Failure(IoError), store |-> st]
        ELSE [result |-> [success |-> TRUE, message |-> <<"M:deleted">>],
              store |-> [f \in DOMAIN st \ {file} |-> st[f]]]))

delete_document(p, st, t, fault) ==
    IF IsNone(p.filename) THEN [result |-> Failure(ArgTypeError), store |-> st] ELSE
    With(FileOf(get_file_path(p.filename), st), LAMBDA file :
    With(ExistsRaises(get_file_path(p.filename), st, fault), LAMBDA err :
        IF err # NoError
        THEN [result |-> Failure(err), store |-> st]
        ELSE IF ~FileExists(file, st)
        THEN [result |-> Failure(NotFound(p.filename)), store |-> st]
        \* file_path.unlink() removes the file the path reaches, or raises
        ELSE IF fault \in {"io", "partial"} \/ IsDirFile(file, st)
        THEN [result |-> Failure(IoError), store |-> st]
        ELSE [result |-> [success |-> TRUE, message |-> <<"M:deleted">>],
              store |-> [f \in DOMAIN st \ {file} |-> st[f]]]))

\* WORD_DIR.glob("*.docx"): the names of the entries directly under WORD_DIR,
\* files and directories alike, that end with ".docx"
GlobDocx(st) ==
    LET under == {f \in DOMAIN st : IsPrefix(WordDir \o <<"/">>, f)}
    IN  {n \in {PathParts(f)[2] : f \in under} : EndsWith(n, DocxSuffix)}

list_documents(p, st, t, fault) ==
    LET docs == {[name |-> n, path |-> WordDir \o <<"/">> \o n] : n \in GlobDocx(st)}
    IN  IF fault \in {"io", "partial"}
        THEN [result |-> Failure(IoError), store |-> st]
        \* the directory can still be read, and file.stat() raises for its
        \* first entry
        ELSE IF fault = "access" /\ docs # {}
        THEN [result |-> Failure(AccessError), store |-> st]
        ELSE [result |-> [success |-> TRUE, count |-> Cardinality(docs), documents |-> docs],
              store |-> st]

MaxRowLen(rows) ==
    CHOOSE m \in {Len(rows[i]) : i \in 1..Len(rows)} :
        \A i \in 1..Len(rows) : Len(rows[i]) <= m

\* doc.add_table(rows, cols) with the cells of table_data copied in
FilledTable(rows) ==
    LET cols == MaxRowLen(rows)
    IN  Table([i \in 1..Len(rows) |->
                 [j \in 1..cols |-> IF j <= Len(rows[i]) THEN rows[i][j] ELSE <<>>]])

add_table(p, st, t, fault) ==
    IF IsNone(p.filename) THEN [result |-> Failure(ArgTypeError), store |-> st] ELSE
    With(FileOf(get_file_path(p.filename), st), LAMBDA file :
    With(ExistsRaises(get_file_path(p.filename), st, fault), LAMBDA err :
        LET path == get_file_path(p.filename)
            doc == st[file]
            head == IF Truthy(Arg(p, "title")) THEN <<Heading("h2", p.title)>> ELSE <<>>
            \* if table_data: neither None nor the empty list
            tab == IF Truthy(p.table_data) THEN <<FilledTable(p.table_data)>> ELSE <<>>
        IN  IF err # NoError
            THEN [result |-> Failure(err), store |-> st]
            ELSE IF ~FileExists(file, st)
            THEN [result |-> Failure(NotFound(p.filename)), store |-> st]
            ELSE IF fault = "io" \/ IsDirFile(file, st) \/ doc = Truncated
            THEN [result |-> Failure(IoError), store |-> st]
            ELSE IF fault = "partial"
            THEN [result |-> Failure(IoError), store |-> [st EXCEPT ![file] = Truncated]]
            ELSE [result |-> [success |-> TRUE, message |-> <<"M:table-added">>],
                  store |-> [st EXCEPT ![file] = doc \o head \o tab]]))

\* sub in s
Contains(s, sub) ==
    \E i \in 1..(Len(s) - Len(sub) + 1) : SubSeq(s, i, i + Len(sub) - 1) = sub

\* sub starts at position i of s
MatchAt(s, i, sub) == i + Len(sub) - 1 <= Len(s) /\ SubSeq(s, i, i + Len(sub) - 1) = sub

\* rep after every character of s[i:]
RECURSIVE Interleave(_, _, _)
Interleave(s, i, rep) ==
    IF i > Len(s) THEN <<>>
    ELSE <<s[i]>> \o rep \o Interleave(s, i + 1, rep)

\* s[i:].replace(sub, rep) for a non-empty sub, scanning from the left
RECURSIVE ReplaceFrom(_, _, _, _)
ReplaceFrom(s, i, sub, rep) ==
    IF i > Len(s) THEN <<>>
    ELSE IF MatchAt(s, i, sub) THEN rep \o ReplaceFrom(s, i + Len(sub), sub, rep)
    ELSE <<s[i]>> \o ReplaceFrom(s, i + 1, sub, rep)

\* s.replace(sub, rep); the empty sub matches before every character and
\* at the end
ReplaceAll(s, sub, rep) ==
    IF sub = <<>> THEN rep \o Interleave(s, 1, rep)
    ELSE ReplaceFrom(s, 1, sub, rep)

\* para.runs is not empty: a paragraph keeps its run when the text of the
\* run becomes empty
HasRun(b) == b.kind # "table" /\ b.run

search_replace(p, st, t, fault) ==
    IF IsNone(p.filename) THEN [result |-> Failure(ArgTypeError), store |-> st] ELSE
    With(FileOf(get_file_path(p.filename), st), LAMBDA file :
    With(ExistsRaises(get_file_path(p.filename), st, fault), LAMBDA err :
        LET path == get_file_path(p.filename)
            doc == st[file]
            hit(b) == HasRun(b) /\ Contains(b.text, p.search_text)
            hits == {i \in 1..Len(doc) : hit(doc[i])}
            new == [i \in 1..Len(doc) |->
                      IF i \in hits
                      THEN [doc[i] EXCEPT !.text = ReplaceAll(doc[i].text, p.search_text,
                                                              p.replace_text)]
                      ELSE doc[i]]
        IN  IF err # NoError
            THEN [result |-> Failure(err), store |-> st]
            ELSE IF ~FileExists(file, st)
            THEN [result |-> Failure(NotFound(p.filename)), store |-> st]
            ELSE IF fault = "io" \/ IsDirFile(file, st) \/ doc = Truncated
            THEN [result |-> Failure(IoError), store |-> st]
            \* None in run.text raises at the first run, and
            \* run.text.replace(search_text, None) at the first hit
            ELSE IF \/ IsNone(p.search_text) /\ \E i \in 1..Len(doc) : HasRun(doc[i])
                    \/ IsNone(p.replace_text) /\ hits # {}
            THEN [result |-> Failure(ArgTypeError), store |-> st]
            ELSE IF fault = "partial"
            THEN [result |-> Failure(IoError), store |-> [st EXCEPT ![file] = Truncated]]
            ELSE [result |-> [success |-> TRUE, message |-> <<"M:replaced">>,
                              count |-> Cardinality(hits)],
                  store |-> [st EXCEPT ![file] = new]]))

(***************************************************************************)
(* Registries.                                                             *)
(***************************************************************************)
\* TOOLS: the parameters each tool advertises
TOOLS ==
    [create_document |-> {"filename", "title", "content"},
     read_document |-> {"filename"},
     update_document |-> {"filename", "action", "content", "paragraph_index"},
     delete_document |-> {"filename"},
     list_documents |-> {},
     add_table |-> {"filename", "table_data", "title"},
     search_replace |-> {"filename", "search_text", "replace_text"}]

\* GET /tools: the registry as it is advertised
get_tools == [tools |-> TOOLS]

\* a handler table that search_replace was never added to
TOOL_HANDLERS_without_search_replace ==
    {"create_document", "read_document", "update_document", "delete_document",
     "list_documents", "add_table"}

\* TOOL_HANDLERS: the names that dispatch to a handler
TOOL_HANDLERS ==
    {"create_document", "read_document", "update_document", "delete_document",
     "list_documents", "add_table", "search_replace"}

\* the def line of each handler: all parameters, and those without a default
Signature ==
    [create_document |-> [all |-> {"filename", "title", "content"}, required |-> {}],
     read_document |-> [all |-> {"filename"}, required |-> {"filename"}],
     update_document |-> [all |-> {"filename", "action", "content", "paragraph_index"},
                          required |-> {"filename", "action"}],
     delete_document |-> [all |-> {"filename"}, required |-> {"filename"}],
     list_documents |-> [all |-> {}, required |-> {}],
     add_table |-> [all |-> {"filename", "table_data", "title"},
                    required |-> {"filename", "table_data"}],
     search_replace |-> [all |-> {"filename", "search_text", "replace_text"},
                         required |-> {"filename", "search_text", "replace_text"}]]

\* handler(**params) binds: no unexpected keyword, no missing required one
Binds(tool, p) ==
    /\ DOMAIN p \subseteq Signature[tool].all
    /\ Signature[tool].required \subseteq DOMAIN p

RunHandler(tool, p, st, t, fault) ==
    CASE tool = "create_document" -> create_document(p, st, t, fault)
      [] tool = "read_document" -> read_document(p, st, t, fault)
      [] tool = "update_document" -> update_document(p, st, t, fault)
      [] tool = "delete_document" -> delete_document(p, st, t, fault)
      [] tool = "list_documents" -> list_documents(p, st, t, fault)
      [] tool = "add_table" -> add_table(p, st, t, fault)
      [] tool = "search_replace" -> search_replace(p, st, t, fault)

\* handler(**params): a TypeError when the call does not bind, outside every try
Invoke(tool, p, st, t, fault) ==
    IF Binds(tool, p)
    THEN [raised |-> FALSE] @@ RunHandler(tool, p, st, t, fault)
    ELSE [raised |-> TRUE, result |-> Failure(<<"TypeError">>), store |-> st]

\* the faults among kinds that the call gets as far as: a load, save or unlink
\* that the handler never comes to cannot fail
Reached(tool, p, st, t, kinds) ==
    With(Invoke(tool, p, st, t, "none"), LAMBDA plain :
        {fault \in kinds : Invoke(tool, p, st, t, fault) # plain})

(***************************************************************************)
(* Plan builder.  The literals of the template are abbreviated: heading j  *)
(* is "Hj", line i of body j is "Bj.i", with the empty lines of the code   *)
(* sample kept empty.  The title is spliced in where the f-strings do.     *)
(***************************************************************************)
\* the number of lines of each section body, in the order of `sections`
SectionLines == <<3, 5, 4, 5, 15, 5, 2>>
NumSections == Len(SectionLines)

SectionHeading(j) == <<"H">> \o IntToStr(j)

BodyLine(j, i, title) ==
    IF j = 5 /\ i \in {2, 5} THEN <<>>
    ELSE IF j = 7 /\ i = 1 THEN title \o <<" ", "B", "7", ".", "1">>
    ELSE <<"B">> \o IntToStr(j) \o <<".">> \o IntToStr(i)

SectionBody(j, title) ==
    JoinLines([i \in 1..SectionLines[j] |-> BodyLine(j, i, title)])

\* intro = f"《{title}》\n\n... {title} ...\n"
Intro(title) ==
    <<"U+300A">> \o title \o <<"U+300B", "\n", "\n", "T", " ">> \o title
        \o <<" ", "T", "\n">>

ComparisonTable ==
    [r \in 1..4 |-> [k \in 1..4 |-> <<"c">> \o IntToStr(r) \o IntToStr(k)]]

LabelCreate == <<"L:create">>
LabelHeading(j) == <<"L:heading:">> \o SectionHeading(j)
LabelBody(j) == <<"L:body:">> \o SectionHeading(j)
LabelTable == <<"L:table">>
TableCaption == <<"T:comparison">>

CreateStep(title, filename) ==
    [tool |-> "create_document", label |-> LabelCreate,
     params |-> [filename |-> filename, title |-> title, content |-> Intro(title)]]

\* a heading step that names the action where the tool belongs
HeadingStepAsTool(j, filename) ==
    [tool |-> "add_heading", label |-> LabelHeading(j),
     params |-> [filename |-> filename, content |-> SectionHeading(j)]]

HeadingStep(j, filename) ==
    [tool |-> "update_document", label |-> LabelHeading(j),
     params |-> [filename |-> filename, action |-> <<"add_heading">>,
                 content |-> SectionHeading(j)]]

BodyStep(j, title, filename) ==
    [tool |-> "update_document", label |-> LabelBody(j),
     params |-> [filename |-> filename, action |-> <<"append">>,
                 content |-> SectionBody(j, title)]]

\* a table step that addresses the document by the caption of the table
TableStepByCaption(filename) ==
    [tool |-> "add_table", label |-> LabelTable,
     params |-> [filename |-> TableCaption, title |-> TableCaption,
                 table_data |-> ComparisonTable]]

TableStep(filename) ==
    [tool |-> "add_table", label |-> LabelTable,
     params |-> [filename |-> filename, title |-> TableCaption,
                 table_data |-> ComparisonTable]]

\* a builder that writes the body of a section before its heading
_react_doc_plan_body_first(title, filename) ==
    <<CreateStep(title, filename)>>
    \o [n \in 1..(2 * NumSections) |->
          IF n % 2 = 1 THEN BodyStep((n + 1) \div 2, title, filename)
          ELSE HeadingStep(n \div 2, filename)]
    \o <<TableStep(filename)>>

\* plan = [create] + [heading, body for each section] + [table]
_react_doc_plan(title, filename) ==
    <<CreateStep(title, filename)>>
    \o [n \in 1..(2 * NumSections) |->
          IF n % 2 = 1 THEN HeadingStep((n + 1) \div 2, filename)
          ELSE BodyStep(n \div 2, title, filename)]
    \o <<TableStep(filename)>>

(***************************************************************************)
(* Plans substituted for the builder when the orchestrator is exercised on *)
(* its own: short sequences over the registered tools a plan may address   *)
(* and one name the registry does not hold.  Their steps carry no label.   *)
(***************************************************************************)
UnknownToolName == "no_such_tool"
StubTools == {"create_document", "update_document", "delete_document", UnknownToolName}

StubStep(tool, title, filename) ==
    [tool |-> tool,
     params |-> CASE tool = "create_document" -> [filename |-> filename, title |-> title]
                  [] tool = "update_document" ->
                        [filename |-> filename, action |-> <<"append">>, content |-> <<"x">>]
                  [] OTHER -> [filename |-> filename]]

StubPlans == UNION {[1..n -> StubTools] : n \in 1..MaxPlanLen}

\* the plan stream_response runs: the builder's, or the substituted one
BuildPlan(stubbed, title, filename) ==
    IF stubbed = <<>> THEN _react_doc_plan(title, filename)
    ELSE [i \in 1..Len(stubbed) |-> StubStep(stubbed[i], title, filename)]

(***************************************************************************)
(* Requests.                                                               *)
(***************************************************************************)
TextReact == <<"R", "e", "a", "c", "t">>
TextShort == <<"a", "b">>
TextMessy == <<" ", "a", " ", "\t", "b", "/", "c", ".", " ">>
TextDoc0 == <<"d", "o", "c", "_", "0">>
TextBlank == <<" ">>
TextThree == <<"a", " ", "b">>
TextCJK == <<"U+4E2D", "U+6587", "U+00E9", "-", "x">>
TextLong == [i \in 1..(MaxBaseLen + 2) |-> IF i % 2 = 1 THEN "a" ELSE "-"]

Request(query, title, filename) == [query |-> query, title |-> title, filename |-> filename]

\* the requests of the orchestrator runs: a usable title, and one too short
AgentRequests == {Request(TextReact, None, None), Request(TextReact, TextShort, None)}

\* the requests of the identifier runs
IdRequests ==
    {Request(TextReact, None, None),
     Request(TextReact, TextShort, None),
     Request(TextReact, TextDoc0, None),
     Request(TextBlank, TextBlank, None),
     Request(TextReact, TextReact, TextMessy),
     Request(<<>>, None, TextReact),
     Request(TextReact, None, TextLong),
     Request(TextReact, TextCJK, None),
     Request(TextReact, TextReact, TextBlank),
     Request(TextReact, TextThree, <<>>),
     Request(TextMessy, TextBlank, None),
     Request(TextReact, TextMessy, None)}

(***************************************************************************)
(* State.                                                                  *)
(***************************************************************************)
VARIABLES
    now,           \* the last reading of the wall clock, in milliseconds
    store,         \* path -> body of every existing document
    faults,        \* the environment: the faults injected so far, and whether
                   \* the search permission on WORD_DIR is denied
    stub,          \* the substituted plan, <<>> when the builder is used
    pc,            \* per connection: the position of stream_response
    request,       \* per connection: the AgentRequest received
    title,         \* per connection: the normalized title
    filename,      \* per connection: the document identifier
    plan,          \* per connection: the plan being run
    idx,           \* per connection: the 1-based index of the current step
    events,        \* per connection: the events yielded so far
    disconnected,  \* per connection: the peer has disconnected
    cancelledAt,   \* per connection: the step whose check saw the disconnect, or 0
    clockReads,    \* per connection: the two clock readings of the normalizer
    calls,         \* the handler invocations made by plans: conn, step, tool, result
    ncalls,        \* direct calls made so far
    response,      \* the outcome of the last direct call
    beats,         \* per connection: the clock readings of the heartbeats sent
    discAt,        \* per connection: where the generator stood when the peer left
    lastCall       \* the last direct call: its input and the store it met, and
                   \* the paths direct calls have removed so far

vars == <<now, store, faults, stub, pc, request, title, filename, plan, idx, events,
          disconnected, cancelledAt, clockReads, calls, ncalls, response,
          beats, discAt, lastCall>>

agentVars == <<pc, request, title, filename, plan, idx, events, disconnected, cancelledAt,
               clockReads, calls>>

NoRequest == Request(<<>>, None, None)
NoResponse == [status |-> 0]
NoDisconnect == [pc |-> "none", idx |-> 0]
NoCall == [tool |-> "none", deleted |-> {}]

\* no fault so far, and WORD_DIR can be searched
NoFaults == [count |-> 0, denied |-> FALSE]
\* an environment that injects no fault
FaultsSpent == [count |-> MaxFaults, denied |-> FALSE]

InitProgram ==
    /\ now = ClockStart
    /\ store = <<>>
    /\ pc = [c \in Conns |-> "idle"]
    /\ request = [c \in Conns |-> NoRequest]
    /\ title = [c \in Conns |-> <<>>]
    /\ filename = [c \in Conns |-> <<>>]
    /\ plan = [c \in Conns |-> <<>>]
    /\ idx = [c \in Conns |-> 0]
    /\ events = [c \in Conns |-> <<>>]
    /\ disconnected = [c \in Conns |-> FALSE]
    /\ cancelledAt = [c \in Conns |-> 0]
    /\ clockReads = [c \in Conns |-> <<>>]
    /\ calls = <<>>
    /\ ncalls = 0
    /\ response = NoResponse
    /\ beats = [c \in Conns |-> <<>>]
    /\ discAt = [c \in Conns |-> NoDisconnect]
    /\ lastCall = NoCall

InitCommon == InitProgram /\ faults = NoFaults

\* what the environment may do before a handler runs: nothing, make its load,
\* save or unlink fail, or take the search permission on WORD_DIR away.  The
\* permission is lost at most once, before any other fault, and stays lost.
EnvChoices ==
    IF faults.denied \/ faults.count >= MaxFaults THEN {"none"}
    ELSE IF faults.count = 0 THEN {"none", "io", "partial", "deny"}
    ELSE {"none", "io", "partial"}

EnvAfter(env) ==
    [count |-> IF env = "none" THEN faults.count ELSE faults.count + 1,
     denied |-> faults.denied \/ env = "deny"]

\* the condition the handler meets, once the environment has acted
FaultSeen(env) ==
    IF EnvAfter(env).denied THEN "access"
    ELSE IF env \in {"io", "partial"} THEN env
    ELSE "none"

\* what the environment may do to the call of tool with p
EnvChoicesFor(tool, p) ==
    (EnvChoices \ {"io", "partial"})
        \cup Reached(tool, p, store, now, EnvChoices \cap {"io", "partial"})

Emit(c, e) == events' = [events EXCEPT ![c] = Append(@, e)]

(***************************************************************************)
(* POST /sse/agent: stream_response, one action per stretch of code        *)
(* between two suspension points (a yield or an await).                    *)
(***************************************************************************)
AgentStartEvent ==
    [type |-> "start", tool |-> "agent", message |-> <<"M:agent-start">>]

\* a progress message that counts the steps from 0, as enumerate does by default
ProgressMessageZeroBased(i, total, label) ==
    <<"[">> \o IntToStr(i - 1) \o <<"/">> \o IntToStr(total) \o <<"]", " ">> \o label

\* f"[{idx}/{len(plan)}] {label}"
ProgressMessage(i, total, label) ==
    <<"[">> \o IntToStr(i) \o <<"/">> \o IntToStr(total) \o <<"]", " ">> \o label

\* step.get("label") or tool_name
StepLabel(step) ==
    IF "label" \in DOMAIN step /\ Truthy(step.label) THEN step.label ELSE <<step.tool>>

ProgressEvent(i, total, step) ==
    [type |-> "progress", message |-> ProgressMessage(i, total, StepLabel(step))]

StepStartEvent(i, step) ==
    [type |-> "start", tool |-> step.tool, step |-> i, label |-> StepLabel(step)]

\* an unknown tool reported as a failed result instead of an error
ErrorAsResult(i, step) ==
    [type |-> "result", data |-> Failure(UnknownTool(step.tool)), tool |-> step.tool,
     step |-> i, label |-> StepLabel(step)]

ErrorEvent(i, step) ==
    [type |-> "error", error |-> UnknownTool(step.tool), step |-> i]

ResultEvent(i, step, result) ==
    [type |-> "result", data |-> result, tool |-> step.tool, step |-> i,
     label |-> StepLabel(step)]

\* a done event that reports the title as the request gave it
DoneEventRawTitle(c) ==
    [type |-> "done", data |-> [filename |-> filename[c], title |-> request[c].title]]

DoneEvent(c) ==
    [type |-> "done", data |-> [filename |-> filename[c], title |-> title[c]]]

\* lines 537-548: normalize the request, yield the opening start event; t1 and
\* t2 are the readings of the clock at lines 544 and 545
AgentBeginAt(c, req, t1, t2) ==
    /\ pc[c] = "idle"
    /\ now' = t2
    /\ title' = [title EXCEPT ![c] = NormalizeTitle(req)]
    /\ filename' = [filename EXCEPT ![c] = DocumentId(req, t1, t2)]
    /\ clockReads' = [clockReads EXCEPT ![c] = <<t1, t2>>]
    /\ request' = [request EXCEPT ![c] = req]
    /\ Emit(c, AgentStartEvent)
    /\ pc' = [pc EXCEPT ![c] = "begun"]
    /\ UNCHANGED <<store, faults, stub, plan, idx, disconnected, cancelledAt, calls,
                   ncalls, response, beats, discAt, lastCall>>

\* the same, at any two readings the clock may give
AgentBegin(c, req) ==
    \E t1 \in now..MaxClock : \E t2 \in t1..MaxClock : AgentBeginAt(c, req, t1, t2)

\* lines 549-554: build the plan and enter the loop
AgentPlan(c) ==
    /\ pc[c] = "begun"
    /\ plan' = [plan EXCEPT ![c] = BuildPlan(stub, title[c], filename[c])]
    /\ idx' = [idx EXCEPT ![c] = 1]
    /\ pc' = [pc EXCEPT ![c] = "check"]
    /\ UNCHANGED <<now, store, faults, stub, request, title, filename, events,
                   disconnected, cancelledAt, clockReads, calls, ncalls, response,
                   beats, discAt, lastCall>>

\* a cancellation check whose outcome is ignored
OnDisconnectIgnored == "start"

\* where the loop goes when is_disconnected() answers True: break
OnDisconnect == "after_loop"

\* a check that waits while another plan is at work on the same document
AgentCheckExclusive(c) ==
    /\ pc[c] = "check"
    /\ \A d \in Conns \ {c} :
          ~(/\ filename[d] = filename[c]
            /\ \/ pc[d] \in {"start", "dispatch"}
               \/ pc[d] \in {"check", "after_loop"} /\ idx[d] > 1)
    /\ IF disconnected[c]
       THEN /\ pc' = [pc EXCEPT ![c] = OnDisconnect]
            /\ cancelledAt' = [cancelledAt EXCEPT ![c] = idx[c]]
            /\ UNCHANGED events
       ELSE /\ Emit(c, ProgressEvent(idx[c], Len(plan[c]), plan[c][idx[c]]))
            /\ pc' = [pc EXCEPT ![c] = "start"]
            /\ UNCHANGED cancelledAt
    /\ UNCHANGED <<now, store, faults, stub, request, title, filename, plan, idx,
                   disconnected, clockReads, calls, ncalls, response, beats, discAt,
                   lastCall>>

\* lines 555-562: the cancellation check, then the progress event
AgentCheck(c) ==
    /\ pc[c] = "check"
    /\ IF disconnected[c]
       THEN /\ pc' = [pc EXCEPT ![c] = OnDisconnect]
            /\ cancelledAt' = [cancelledAt EXCEPT ![c] = idx[c]]
            /\ UNCHANGED events
       ELSE /\ Emit(c, ProgressEvent(idx[c], Len(plan[c]), plan[c][idx[c]]))
            /\ pc' = [pc EXCEPT ![c] = "start"]
            /\ UNCHANGED cancelledAt
    /\ UNCHANGED <<now, store, faults, stub, request, title, filename, plan, idx,
                   disconnected, clockReads, calls, ncalls, response,
                   beats, discAt, lastCall>>

\* line 563: the start event of the step
AgentStart(c) ==
    /\ pc[c] = "start"
    /\ Emit(c, StepStartEvent(idx[c], plan[c][idx[c]]))
    /\ pc' = [pc EXCEPT ![c] = "dispatch"]
    /\ UNCHANGED <<now, store, faults, stub, request, title, filename, plan, idx,
                   disconnected, cancelledAt, clockReads, calls, ncalls, response,
                   beats, discAt, lastCall>>

\* tool_name not in TOOL_HANDLERS
IsUnknown(tool) == tool \notin TOOL_HANDLERS

\* a break in place of the return
OnUnknownToolBreak == "after_loop"

\* where the generator goes after the error event: return
OnUnknownTool == "closed"

\* a loop that gives up at the first failed result
AfterResultStopOnFailure(result, i, total) ==
    IF ~result.success THEN "closed"
    ELSE IF i + 1 > total THEN "after_loop" ELSE "check"

\* the position after a result event, whatever the result says: the next step,
\* or past the loop
AfterResult(result, i, total) == IF i + 1 > total THEN "after_loop" ELSE "check"

\* a loop that runs a failed step again
NextIndexRetry(result, i) == IF result.success THEN i + 1 ELSE i

\* enumerate(plan, start=1): the step after step i, whatever its result
NextIndex(result, i) == i + 1

\* lines 565-572: the registry lookup, then the handler call and the result event
AgentDispatch(c) ==
    LET step == plan[c][idx[c]]
    IN  /\ pc[c] = "dispatch"
        /\ IF IsUnknown(step.tool)
           THEN /\ Emit(c, ErrorEvent(idx[c], step))
                /\ pc' = [pc EXCEPT ![c] = OnUnknownTool]
                /\ UNCHANGED <<store, faults, idx, calls>>
           ELSE \E env \in EnvChoicesFor(step.tool, step.params) :
                  \E r \in {Invoke(step.tool, step.params, store, now, FaultSeen(env))} :
                      /\ faults' = EnvAfter(env)
                      /\ store' = r.store
                      /\ calls' = Append(calls, [conn |-> c, step |-> idx[c],
                                                 tool |-> step.tool, raised |-> r.raised,
                                                 fault |-> FaultSeen(env),
                                                 result |-> r.result])
                      /\ IF r.raised
                         THEN /\ pc' = [pc EXCEPT ![c] = "crashed"]
                              /\ UNCHANGED <<events, idx>>
                         ELSE /\ Emit(c, ResultEvent(idx[c], step, r.result))
                              /\ idx' = [idx EXCEPT ![c] = NextIndex(r.result, @)]
                              /\ pc' = [pc EXCEPT ![c] = AfterResult(r.result, idx[c],
                                                                     Len(plan[c]))]
        /\ UNCHANGED <<now, stub, request, title, filename, plan, disconnected,
                       cancelledAt, clockReads, ncalls, response, beats, discAt, lastCall>>

\* line 574: the done event, then the generator ends
AgentDone(c) ==
    /\ pc[c] = "after_loop"
    /\ Emit(c, DoneEvent(c))
    /\ pc' = [pc EXCEPT ![c] = "closed"]
    /\ UNCHANGED <<now, store, faults, stub, request, title, filename, plan, idx,
                   disconnected, cancelledAt, clockReads, calls, ncalls, response,
                   beats, discAt, lastCall>>

\* the peer of an open stream goes away
PeerDisconnect(c) ==
    /\ pc[c] \notin {"idle", "closed", "crashed", "cancelled"}
    /\ ~disconnected[c]
    /\ disconnected' = [disconnected EXCEPT ![c] = TRUE]
    /\ discAt' = [discAt EXCEPT ![c] = [pc |-> pc[c], idx |-> idx[c]]]
    /\ UNCHANGED <<now, store, faults, stub, pc, request, title, filename, plan, idx,
                   events, cancelledAt, clockReads, calls, ncalls, response, beats,
                   lastCall>>

\* the positions at which a generator is suspended, at a yield or an await;
\* past the loop it is suspended at the yield of the last result, unless the
\* break of the cancellation check took it there
Suspended(c) ==
    \/ pc[c] \in {"begun", "check", "start", "dispatch",
                  "sse_tools", "sse_check", "sse_sleep"}
    \/ pc[c] = "after_loop" /\ cancelledAt[c] = 0

\* StreamingResponse stops a generator whose peer has left: the generator is
\* closed where it is suspended, and the code after that point never runs
Cancel(c) ==
    /\ disconnected[c]
    /\ Suspended(c)
    /\ pc' = [pc EXCEPT ![c] = "cancelled"]
    /\ UNCHANGED <<now, store, faults, stub, request, title, filename, plan, idx,
                   events, disconnected, cancelledAt, clockReads, calls, ncalls,
                   response, beats, discAt, lastCall>>

\* the steps of stream_response on connection c, once the request is in
AgentStep(c) ==
    \/ AgentPlan(c)
    \/ AgentCheck(c)
    \/ AgentStart(c)
    \/ AgentDispatch(c)
    \/ AgentDone(c)

\* the generator of a peer that is still there is resumed
AgentResumed(c) == ~disconnected[c] /\ AgentStep(c)

(***************************************************************************)
(* The orchestrator on one connection, over the builder's plan and over    *)
(* every substituted plan.  The two clock readings of the normalizer fall  *)
(* in one millisecond here; the identifier runs below take them apart.     *)
(***************************************************************************)
Init ==
    /\ InitCommon
    /\ stub \in {<<>>} \cup StubPlans

Next ==
    \/ \E req \in AgentRequests : AgentBeginAt(1, req, now, now)
    \/ AgentPlan(1)
    \/ AgentCheck(1)
    \/ AgentStart(1)
    \/ AgentDispatch(1)
    \/ AgentDone(1)
    \/ PeerDisconnect(1)
    \/ Cancel(1)

Spec == Init /\ [][Next]_vars

\* the server keeps resuming the generator for as long as the peer is there;
\* once the peer has left, the generator may be resumed or stopped
FairSpec == Spec /\ WF_vars(AgentResumed(1))

(***************************************************************************)
(* POST /call: call_tool, one synchronous call per request.                *)
(***************************************************************************)
FileA == <<"a">>
FileAAlias == <<".", ".", "/", "w", "o", "r", "d", "/", "a">>
FileADocx == <<"a">> \o DocxSuffix

\* the tool names and parameter mappings callers send
\* the shortest name that, with ".docx" appended, is longer than NAME_MAX
LongName == [i \in 1..(NameMax - Len(DocxSuffix) + 1) |-> "a"]

DirectCalls ==
    {[tool |-> "create_document", params |-> [filename |-> FileA]],
     [tool |-> "create_document",
      params |-> [filename |-> FileADocx, title |-> TextReact, content |-> <<"a", "\n", " ", "b">>]],
     [tool |-> "create_document", params |-> <<>>],
     [tool |-> "read_document", params |-> [filename |-> FileA]],
     [tool |-> "read_document", params |-> <<>>],
     [tool |-> "update_document",
      params |-> [filename |-> FileA, action |-> <<"append">>, content |-> <<"a", "\n", "b">>]],
     [tool |-> "update_document",
      params |-> [filename |-> FileA, action |-> <<"replace">>, paragraph_index |-> 0]],
     [tool |-> "update_document", params |-> [filename |-> FileA]],
     [tool |-> "delete_document", params |-> [filename |-> FileA]],
     [tool |-> "delete_document", params |-> [filename |-> FileA, force |-> <<"1">>]],
     [tool |-> "list_documents", params |-> <<>>],
     [tool |-> "add_table",
      params |-> [filename |-> FileA, table_data |-> <<<<<<"a">>, <<"b">>>>, <<<<"c">>>>>>]],
     [tool |-> "search_replace",
      params |-> [filename |-> FileA, search_text |-> <<"a">>, replace_text |-> <<"b", "b">>]],
     \* a second spelling of the path of FileA
     [tool |-> "delete_document", params |-> [filename |-> FileAAlias]],
     \* the empty search text
     [tool |-> "search_replace",
      params |-> [filename |-> FileA, search_text |-> <<>>, replace_text |-> <<"b">>]],
     \* JSON null for the index
     [tool |-> "update_document",
      params |-> [filename |-> FileA, action |-> <<"replace">>, content |-> <<"b">>,
                  paragraph_index |-> None]],
     \* JSON null for the name, for the rows and for the search text
     [tool |-> "read_document", params |-> [filename |-> None]],
     [tool |-> "search_replace",
      params |-> [filename |-> FileA, search_text |-> None, replace_text |-> <<"b">>]],
     [tool |-> "add_table", params |-> [filename |-> FileA, table_data |-> None]],
     \* a name the file system refuses
     [tool |-> "create_document", params |-> [filename |-> LongName]],
     [tool |-> "delete_document", params |-> [filename |-> LongName]],
     [tool |-> UnknownToolName, params |-> <<>>]}

\* the reply of the server: the returned dict, or the 500 of a fault that
\* escaped the endpoint
Returned(result) == [status |-> 200, body |-> result]
InternalError == [status |-> 500]

call_tool(tool, p) ==
    /\ ncalls < MaxCalls
    /\ ncalls' = ncalls + 1
    /\ IF IsUnknown(tool)
       THEN /\ response' = Returned(Failure(UnknownTool(tool)))
            /\ lastCall' = [tool |-> tool, params |-> p, before |-> store,
                            fault |-> "none", invoked |-> FALSE,
                            deleted |-> lastCall.deleted]
            /\ UNCHANGED <<store, faults>>
       ELSE \E env \in EnvChoicesFor(tool, p) :
              \E r \in {Invoke(tool, p, store, now, FaultSeen(env))} :
                  /\ faults' = EnvAfter(env)
                  /\ store' = r.store
                  /\ response' = IF r.raised THEN InternalError ELSE Returned(r.result)
                  /\ lastCall' = [tool |-> tool, params |-> p, before |-> store,
                                  fault |-> FaultSeen(env), invoked |-> TRUE,
                                  deleted |-> lastCall.deleted \cup
                                      (DOMAIN store \ DOMAIN r.store)]
    /\ UNCHANGED <<now, stub, agentVars, beats, discAt>>

InitDirect ==
    /\ InitCommon
    /\ stub = <<>>

NextDirect == \E call \in DirectCalls : call_tool(call.tool, call.params)

SpecDirect == InitDirect /\ [][NextDirect]_vars

(***************************************************************************)
(* POST /sse/call: stream_response of sse_call_tool, one action per        *)
(* stretch of code between two yields.  The generator never asks whether   *)
(* the peer is still there.  Two callers stream at a time, so that a call  *)
(* meets the documents another call has left.                              *)
(***************************************************************************)
Callers == {1, 2}

\* ToolCallRequest
ToolCallRequest(tool, p) == [tool |-> tool, params |-> p]

CallStartEvent(tool) == [type |-> "start", tool |-> tool]
CallErrorEvent(tool) == [type |-> "error", error |-> UnknownTool(tool)]
CallResultEvent(result) == [type |-> "result", data |-> result]
CallDoneEvent == [type |-> "done"]

\* lines 500-504: the start event
CallBegin(c, call) ==
    /\ pc[c] = "idle"
    /\ request' = [request EXCEPT ![c] = ToolCallRequest(call.tool, call.params)]
    /\ Emit(c, CallStartEvent(call.tool))
    /\ pc' = [pc EXCEPT ![c] = "call_dispatch"]
    /\ UNCHANGED <<now, store, faults, stub, title, filename, plan, idx, disconnected,
                   cancelledAt, clockReads, calls, ncalls, response, beats, discAt,
                   lastCall>>

\* lines 506-515: the registry lookup, then the handler call and the result event
CallDispatch(c) ==
    LET tool == request[c].tool
    IN  /\ pc[c] = "call_dispatch"
        /\ IF IsUnknown(tool)
           THEN /\ Emit(c, CallErrorEvent(tool))
                /\ pc' = [pc EXCEPT ![c] = "closed"]
                /\ UNCHANGED <<store, faults, calls>>
           ELSE \E env \in EnvChoicesFor(tool, request[c].params) :
                  \E r \in {Invoke(tool, request[c].params, store, now, FaultSeen(env))} :
                      /\ faults' = EnvAfter(env)
                      /\ store' = r.store
                      /\ calls' = Append(calls, [conn |-> c, step |-> 0, tool |-> tool,
                                                 raised |-> r.raised,
                                                 fault |-> FaultSeen(env),
                                                 result |-> r.result])
                      /\ IF r.raised
                         THEN /\ pc' = [pc EXCEPT ![c] = "crashed"]
                              /\ UNCHANGED events
                         ELSE /\ Emit(c, CallResultEvent(r.result))
                              /\ pc' = [pc EXCEPT ![c] = "call_done"]
        /\ UNCHANGED <<now, stub, request, title, filename, plan, idx, disconnected,
                       cancelledAt, clockReads, ncalls, response, beats, discAt,
                       lastCall>>

\* line 518: the done event, then the generator ends
CallDone(c) ==
    /\ pc[c] = "call_done"
    /\ Emit(c, CallDoneEvent)
    /\ pc' = [pc EXCEPT ![c] = "closed"]
    /\ UNCHANGED <<now, store, faults, stub, request, title, filename, plan, idx,
                   disconnected, cancelledAt, clockReads, calls, ncalls, response,
                   beats, discAt, lastCall>>

InitCall ==
    /\ InitCommon
    /\ stub = <<>>

NextCall ==
    \E c \in Callers :
        \/ \E call \in DirectCalls : CallBegin(c, call)
        \/ CallDispatch(c)
        \/ CallDone(c)

SpecCall == InitCall /\ [][NextCall]_vars

(***************************************************************************)
(* Several plan requests arriving together: the normalizer of each runs    *)
(* without a suspension point, in any order, at clock readings that never  *)
(* go back.                                                                *)
(***************************************************************************)
InitIds ==
    /\ InitCommon
    /\ stub = <<>>

NextIds == \E c \in Conns : \E req \in IdRequests : AgentBegin(c, req)

SpecIds == InitIds /\ [][NextIds]_vars

(***************************************************************************)
(* GET /sse: event_generator, one action per stretch of code between two   *)
(* suspension points.                                                      *)
(***************************************************************************)
\* list(TOOLS.keys()): the names in the order the dict literal gives them
ToolNames ==
    <<"create_document", "read_document", "update_document", "delete_document",
      "list_documents", "add_table", "search_replace">>

\* datetime.now().isoformat(): the text of the clock reading
IsoFormat(t) == IntToStr(t)

ConnectedEvent == [type |-> "connected", message |-> <<"M:sse-connected">>]

\* a tools list sent under the type of an operation result
ToolsEventAsResult == [type |-> "result", data |-> ToolNames]

ToolsEvent == [type |-> "tools", tools |-> ToolNames]

HeartbeatEvent(t) == [type |-> "heartbeat", time |-> IsoFormat(t)]

\* line 467: the connection acknowledgement
SseConnected(c) ==
    /\ pc[c] = "idle"
    /\ Emit(c, ConnectedEvent)
    /\ pc' = [pc EXCEPT ![c] = "sse_tools"]
    /\ UNCHANGED <<now, store, faults, stub, request, title, filename, plan, idx,
                   disconnected, cancelledAt, clockReads, calls, ncalls, response,
                   beats, discAt, lastCall>>

\* line 470: the list of tool names
SseTools(c) ==
    /\ pc[c] = "sse_tools"
    /\ Emit(c, ToolsEvent)
    /\ pc' = [pc EXCEPT ![c] = "sse_check"]
    /\ UNCHANGED <<now, store, faults, stub, request, title, filename, plan, idx,
                   disconnected, cancelledAt, clockReads, calls, ncalls, response,
                   beats, discAt, lastCall>>

\* a loop that never asks whether the peer is still there
SseCheckBlind(c) ==
    /\ pc[c] = "sse_check"
    /\ Len(beats[c]) < MaxBeats
    /\ Emit(c, HeartbeatEvent(now))
    /\ beats' = [beats EXCEPT ![c] = Append(@, now)]
    /\ pc' = [pc EXCEPT ![c] = "sse_sleep"]
    /\ UNCHANGED <<now, store, faults, stub, request, title, filename, plan, idx,
                   disconnected, cancelledAt, clockReads, calls, ncalls, response,
                   discAt, lastCall>>

\* lines 473-478: the disconnect check, then break or the heartbeat
SseCheck(c) ==
    /\ pc[c] = "sse_check"
    /\ IF disconnected[c]
       THEN /\ pc' = [pc EXCEPT ![c] = "closed"]
            /\ UNCHANGED <<events, beats>>
       ELSE /\ Len(beats[c]) < MaxBeats
            /\ Emit(c, HeartbeatEvent(now))
            /\ beats' = [beats EXCEPT ![c] = Append(@, now)]
            /\ pc' = [pc EXCEPT ![c] = "sse_sleep"]
    /\ UNCHANGED <<now, store, faults, stub, request, title, filename, plan, idx,
                   disconnected, cancelledAt, clockReads, calls, ncalls, response,
                   discAt, lastCall>>

\* line 479: await asyncio.sleep(30) returns once the interval has gone by, or
\* a little later
SseSleep(c) ==
    /\ pc[c] = "sse_sleep"
    /\ \E late \in 0..MaxTick : now' = now + HeartbeatInterval * MsPerSec + late
    /\ pc' = [pc EXCEPT ![c] = "sse_check"]
    /\ UNCHANGED <<store, faults, stub, request, title, filename, plan, idx, events,
                   disconnected, cancelledAt, clockReads, calls, ncalls, response,
                   beats, discAt, lastCall>>

\* the steps of event_generator on connection c
SseStep(c) ==
    \/ SseConnected(c)
    \/ SseTools(c)
    \/ SseCheck(c)
    \/ SseSleep(c)

\* the generator of a peer that is still there is resumed
SseResumed(c) == ~disconnected[c] /\ SseStep(c)

InitSse ==
    /\ InitCommon
    /\ stub = <<>>

NextSse ==
    \/ SseConnected(1)
    \/ SseTools(1)
    \/ SseCheck(1)
    \/ SseSleep(1)
    \/ PeerDisconnect(1)
    \/ Cancel(1)

SpecSse == InitSse /\ [][NextSse]_vars

\* the server keeps resuming the generator for as long as the peer is there
FairSse == SpecSse /\ WF_vars(SseResumed(1))

(***************************************************************************)
(* Two plan requests that arrive in the same millisecond, so that equal    *)
(* requests get the same identifier.  Each connection runs its own         *)
(* stream_response; the event loop may resume either at every suspension   *)
(* point.  The peers stay connected and the environment injects no fault.  *)
(***************************************************************************)
Racers == {1, 2}

InitRace ==
    /\ InitProgram
    /\ faults = FaultsSpent
    /\ stub \in StubPlans

NextRace ==
    \E c \in Racers :
        \/ \E req \in AgentRequests : AgentBeginAt(c, req, now, now)
        \/ AgentPlan(c)
        \/ AgentCheck(c)
        \/ AgentStart(c)
        \/ AgentDispatch(c)
        \/ AgentDone(c)

SpecRace == InitRace /\ [][NextRace]_vars

(***************************************************************************)
(* Properties.                                                             *)
(***************************************************************************)
Last(seq) == seq[Len(seq)]
Types(c) == [n \in 1..Len(events[c]) |-> events[c][n].type]
CountType(c, ty) == Cardinality({n \in 1..Len(events[c]) : events[c][n].type = ty})
HasType(c, ty) == \E n \in 1..Len(events[c]) : events[c][n].type = ty

\* every step of the plan names a registered operation
AllRegistered(c) ==
    plan[c] # <<>> /\ \A k \in 1..Len(plan[c]) : plan[c][k].tool \in TOOL_HANDLERS

\* the stream ended with one result per step and a done event
Completed(c) ==
    /\ pc[c] = "closed"
    /\ CountType(c, "result") = Len(plan[c])
    /\ CountType(c, "done") = 1

\* step k went through dispatch and found no handler
UnknownDispatched(c, k) ==
    /\ k \in 1..Len(plan[c])
    /\ plan[c][k].tool \notin TOOL_HANDLERS
    /\ idx[c] = k
    /\ pc[c] \notin {"check", "start", "dispatch", "cancelled"}
    /\ cancelledAt[c] = 0

\* C1: once a cancellation check has seen the peer gone, the stream carries no
\* done event and no error event.
CE_C1_SilentAbort ==
    \A c \in Conns :
        cancelledAt[c] > 0 =>
            \A n \in 1..Len(events[c]) : events[c][n].type \notin {"done", "error"}

\* C2: when step k reaches dispatch with a name the registry does not hold, the
\* stream ends with an error event naming that operation and k; no handler runs
\* for step k or a later one, and no result for step k and no done is emitted.
Thm_C2_UnknownOperationAborts ==
    \A c \in Conns :
        /\ \A k \in 1..Len(plan[c]) :
              UnknownDispatched(c, k) =>
                  /\ Last(events[c]) = [type |-> "error",
                                        error |-> <<"E:unknown-tool:", plan[c][k].tool>>,
                                        step |-> k]
                  /\ CountType(c, "error") = 1
                  /\ ~HasType(c, "done")
                  /\ \A n \in 1..Len(events[c]) :
                        events[c][n].type = "result" => events[c][n].step < k
                  /\ \A m \in 1..Len(calls) : calls[m].conn = c => calls[m].step < k
        /\ \A k \in 1..Len(plan[c]) : plan[c][k].tool \notin TOOL_HANDLERS => idx[c] <= k
        /\ \A n \in 1..Len(events[c]) :
              events[c][n].type = "error" => UnknownDispatched(c, events[c][n].step)

Wit_C2_ErrorBeforeLaterStep ==
    \E c \in Conns :
        /\ UnknownDispatched(c, 1)
        /\ pc[c] = "closed"
        /\ Len(plan[c]) >= 2
        /\ plan[c][2].tool \in TOOL_HANDLERS

\* C3: with every operation registered and whatever the backend answers, a stream
\* that ends without having seen the peer leave carries one result per step and a
\* done event; and once the plan is built, either the peer disconnects or the
\* stream completes.
Thm_C3_FailureDoesNotStop ==
    /\ [](\A c \in Conns :
            (AllRegistered(c) /\ pc[c] = "closed" /\ cancelledAt[c] = 0) => Completed(c))
    /\ \A c \in Conns :
          (pc[c] = "check" /\ AllRegistered(c)) ~> (disconnected[c] \/ Completed(c))

Wit_C3_InteriorFailure ==
    \E c \in Conns :
        /\ AllRegistered(c)
        /\ Completed(c)
        /\ ~disconnected[c]
        /\ \E n \in 1..Len(events[c]) :
              /\ events[c][n].type = "result"
              /\ events[c][n].step \in 2..(Len(plan[c]) - 1)
              /\ ~events[c][n].data.success

\* C4: at most one done event is ever emitted; when the last step has run, the
\* stream ends with exactly one done event, right after the result of the last
\* step, carrying the identifier and the title the normalizer computed.
Thm_C4_DoneAfterLastStep ==
    \A c \in Conns :
        /\ CountType(c, "done") <= 1
        /\ (pc[c] = "closed" /\ idx[c] = Len(plan[c]) + 1) =>
              LET ev == events[c]
                  L == Len(ev)
              IN  /\ CountType(c, "done") = 1
                  /\ ev[L].type = "done"
                  /\ ev[L - 1].type = "result"
                  /\ ev[L - 1].step = Len(plan[c])
                  /\ DOMAIN ev[L].data = {"filename", "title"}
                  /\ ev[L].data.title = NormalizeTitle(request[c])
                  /\ ev[L].data.filename =
                        DocumentId(request[c], clockReads[c][1], clockReads[c][2])
                  /\ ev[L].data.filename = plan[c][1].params.filename

Wit_C4_BuiltPlanDone ==
    \E c \in Conns :
        /\ pc[c] = "closed"
        /\ idx[c] = Len(plan[c]) + 1
        /\ Len(plan[c]) = 2 * NumSections + 2
        /\ request[c].title = TextShort

\* the result the handler returned for step i of connection c
ReturnedFor(c, i) ==
    {calls[m].result : m \in {j \in 1..Len(calls) : calls[j].conn = c /\ calls[j].step = i}}

\* C5: after the opening event the stream is a run of (progress, start, result)
\* triples, the i-th triple being that of step i: progress "[i/total] label",
\* start with the tool and i, result with the tool, i, the label and the result
\* the handler returned.
Thm_C5_StepEventOrder ==
    \A c \in Conns :
        \A n \in 2..Len(events[c]) :
            LET e == events[c][n]
                i == (n + 1) \div 3
                total == Len(plan[c])
                label == StepLabel(plan[c][i])
            IN  /\ n % 3 = 2 => e.type \in {"progress", "done"}
                /\ n % 3 = 0 => e.type = "start"
                /\ n % 3 = 1 => e.type \in {"result", "error"}
                /\ e.type \in {"done", "error"} => n = Len(events[c])
                /\ e.type = "progress" =>
                      /\ i <= total
                      /\ e.message = <<"[">> \o IntToStr(i) \o <<"/">> \o IntToStr(total)
                                         \o <<"]", " ">> \o label
                /\ e.type = "start" =>
                      e.tool = plan[c][i].tool /\ e.step = i /\ e.label = label
                /\ e.type = "result" =>
                      /\ e.tool = plan[c][i].tool
                      /\ e.step = i
                      /\ e.label = label
                      /\ ReturnedFor(c, i) = {e.data}

Wit_C5_ThreeSteps ==
    \E c \in Conns :
        /\ Len(events[c]) >= 10
        /\ events[c][10].type = "result"
        /\ events[c][10].step = 3

\* C6: when the check before step k is the one that sees the peer gone, the stream
\* holds the triples of steps 1..k-1 and nothing else for any step.
Thm_C6_CancelBeforeStepK ==
    \A c \in Conns :
        cancelledAt[c] > 0 =>
            LET k == cancelledAt[c]
                ev == events[c]
            IN  /\ Len(ev) >= 3 * (k - 1) + 1
                /\ \A i \in 1..(k - 1) :
                      /\ ev[3 * i - 1].type = "progress"
                      /\ ev[3 * i].type = "start" /\ ev[3 * i].step = i
                      /\ ev[3 * i + 1].type = "result" /\ ev[3 * i + 1].step = i
                /\ \A n \in (3 * (k - 1) + 2)..Len(ev) :
                      ev[n].type \notin {"progress", "start", "result", "error"}
                /\ CountType(c, "progress") = k - 1
                /\ CountType(c, "result") = k - 1
                /\ CountType(c, "start") = k

Wit_C6_CancelAtThird ==
    \E c \in Conns : cancelledAt[c] = 3 /\ pc[c] = "closed"

\* C7 as stated: a one-step plan naming a nonexistent operation yields exactly
\* [progress, start, error].
CE_C7_ThreeEvents ==
    \A c \in Conns :
        (stub = <<UnknownToolName>> /\ pc[c] = "closed" /\ cancelledAt[c] = 0) =>
            Types(c) = <<"progress", "start", "error">>

\* C7 amended: with the peer connected at the step's check, the stream of such a
\* plan is exactly [start of the orchestration, progress, start, error].
Thm_C7_FourEvents ==
    \A c \in Conns :
        (stub = <<UnknownToolName>> /\ pc[c] = "closed" /\ cancelledAt[c] = 0) =>
            /\ Types(c) = <<"start", "progress", "start", "error">>
            /\ events[c][1].tool = "agent"
            /\ events[c][3].tool = UnknownToolName
            /\ events[c][3].step = 1
            /\ events[c][4].step = 1

Wit_C7_SingleUnknownStep ==
    \E c \in Conns :
        stub = <<UnknownToolName>> /\ pc[c] = "closed" /\ cancelledAt[c] = 0

\* C8: every dispatch of a registered operation answers with a structured result
\* that has a success flag, whatever the parameter mapping.
CE_C8_NeverRaises ==
    /\ response # NoResponse =>
          response.status = 200 /\ "success" \in DOMAIN response.body
    /\ \A m \in 1..Len(calls) : ~calls[m].raised

\* C9: any two plan requests receive distinct identifiers.
CE_C9_AlwaysDistinct ==
    \A c1, c2 \in Conns :
        (c1 # c2 /\ pc[c1] # "idle" /\ pc[c2] # "idle") => filename[c1] # filename[c2]

\* C10: two requests whose millisecond readings differ receive distinct
\* identifiers, whatever their titles and filenames.
Thm_C10_DistinctWhenMillisDiffer ==
    \A c1, c2 \in Conns :
        (/\ c1 # c2
         /\ pc[c1] # "idle"
         /\ pc[c2] # "idle"
         /\ Millis(clockReads[c1][2]) # Millis(clockReads[c2][2]))
        => filename[c1] # filename[c2]

Wit_C10_SameShortTitle ==
    \E c1, c2 \in Conns :
        /\ c1 # c2
        /\ pc[c1] # "idle"
        /\ pc[c2] # "idle"
        /\ request[c1] = request[c2]
        /\ request[c1].title = TextShort
        /\ clockReads[c1][2] # clockReads[c2][2]
        /\ BaseName(request[c1], clockReads[c1][1]) = BaseName(request[c2], clockReads[c2][1])

\* the plan of connection c came from the builder
Built(c) == stub = <<>> /\ plan[c] # <<>>

\* C11: the plan the builder returns over its N sections has 2N+2 steps: step 1
\* is create_document, the last is add_table, and for every section j steps 2j
\* and 2j+1 are update_document with action add_heading, then append, carrying
\* the heading and the body of section j.
Thm_C11_PlanShape ==
    \A c \in Conns :
        Built(c) =>
            LET P == plan[c]
                N == Len(SectionLines)
            IN  /\ Len(P) = 2 * N + 2
                /\ P[1].tool = "create_document"
                /\ P[Len(P)].tool = "add_table"
                /\ \A j \in 1..N :
                      /\ P[2 * j].tool = "update_document"
                      /\ P[2 * j].params.action = <<"add_heading">>
                      /\ P[2 * j].params.content = SectionHeading(j)
                      /\ P[2 * j + 1].tool = "update_document"
                      /\ P[2 * j + 1].params.action = <<"append">>
                      /\ P[2 * j + 1].params.content = SectionBody(j, title[c])
                /\ \A k \in 2..(Len(P) - 1) : P[k].tool # "create_document"

Wit_C11_BuiltPlanOfSixteen ==
    \E c \in Conns : Built(c) /\ Len(plan[c]) = 16 /\ pc[c] = "check" /\ idx[c] = 1

\* C12: a built plan has at least one step, its first step creates the document
\* whose identifier the normalizer computed, every later step addresses that
\* same identifier, the done event reports it, and no handler runs for a later
\* step before the create of step 1 has run.
Thm_C12_OneTargetDocument ==
    \A c \in Conns :
        Built(c) =>
            /\ Len(plan[c]) >= 1
            /\ plan[c][1].tool = "create_document"
            /\ plan[c][1].params.filename = filename[c]
            /\ \A k \in 2..Len(plan[c]) :
                  /\ plan[c][k].tool # "create_document"
                  /\ plan[c][k].params.filename = plan[c][1].params.filename
            /\ \A n \in 1..Len(events[c]) :
                  events[c][n].type = "done" =>
                      events[c][n].data.filename = plan[c][1].params.filename
            /\ \A m \in 1..Len(calls) :
                  (calls[m].conn = c /\ calls[m].step > 1) =>
                      \E m1 \in 1..(m - 1) :
                          /\ calls[m1].conn = c
                          /\ calls[m1].step = 1
                          /\ calls[m1].tool = "create_document"

Wit_C12_TableOnCreatedDocument ==
    \E c \in Conns :
        /\ Built(c)
        /\ HasType(c, "done")
        /\ \E m \in 1..Len(calls) :
              /\ calls[m].conn = c
              /\ calls[m].tool = "add_table"
              /\ calls[m].result.success

\* the characters an identifier may hold: word characters (the underscore among
\* them), the hyphen and CJK ideographs
IdChars == AsciiLetters \cup DigitChars \cup CJKChars \cup {"_", "-", "U+00E9"}

\* C13: the identifier of every request is non-empty, holds only word characters,
\* underscores, hyphens and CJK ideographs (no whitespace, no path separator, no
\* dot), and is at most 40 + 1 + (digits of the millisecond reading) long.
Thm_C13_SafeBoundedId ==
    \A c \in Conns :
        pc[c] # "idle" =>
            LET id == filename[c]
            IN  /\ id # <<>>
                /\ \A i \in 1..Len(id) :
                      /\ id[i] \in IdChars
                      /\ id[i] \notin WhitespaceChars \cup {"/", "\\", "."}
                /\ Len(id) <= 40 + 1 + Len(IntToStr(clockReads[c][2]))

Wit_C13_LongAndMessyNames ==
    \E c1, c2 \in Conns :
        /\ pc[c1] # "idle"
        /\ request[c1].filename = TextLong
        /\ Len(filename[c1]) = 40 + 1 + Len(IntToStr(clockReads[c1][2]))
        /\ pc[c2] # "idle"
        /\ request[c2].filename = TextMessy
        /\ SubSeq(filename[c2], 1, 5) = <<"a", "_", "b", "c", "_">>

\* C14: the base of the identifier is the sanitized filename of the request when
\* one is given, else the sanitized title; it is replaced by the literal prefix
\* and the seconds reading exactly when it is empty or shorter than 3 characters.
Thm_C14_BaseSelection ==
    \A c \in Conns :
        pc[c] # "idle" =>
            LET req == request[c]
                given == req.filename # None /\ req.filename # <<>>
                b == _sanitize_filename(IF given THEN req.filename ELSE title[c])
                sec == clockReads[c][1] \div 1000
                ms == clockReads[c][2]
                base == IF Len(b) < 3 THEN <<"d", "o", "c", "_">> \o IntToStr(sec) ELSE b
            IN  filename[c] = base \o <<"_">> \o IntToStr(ms)

Wit_C14_KeptAndReplaced ==
    \E c1, c2 \in Conns :
        /\ pc[c1] # "idle"
        /\ request[c1].title = TextThree
        /\ SubSeq(filename[c1], 1, 4) = <<"a", "_", "b", "_">>
        /\ pc[c2] # "idle"
        /\ request[c2].filename = TextBlank
        /\ SubSeq(filename[c2], 1, 4) = <<"d", "o", "c", "_">>

\* C15: the title is request.title stripped when that is non-empty, else
\* request.query stripped when that is non-empty, else the fallback literal; it
\* is never empty and never whitespace only.
Thm_C15_TitleFallbacks ==
    \A c \in Conns :
        pc[c] # "idle" =>
            LET req == request[c]
                t == IF req.title = None THEN <<>> ELSE Strip(req.title)
                q == Strip(req.query)
            IN  /\ title[c] = (IF t # <<>> THEN t ELSE IF q # <<>> THEN q
                               ELSE <<"U+65B0", "U+6587", "U+6863">>)
                /\ title[c] # <<>>
                /\ \E i \in 1..Len(title[c]) : title[c][i] \notin WhitespaceChars
                /\ title[c][1] \notin WhitespaceChars
                /\ title[c][Len(title[c])] \notin WhitespaceChars

Wit_C15_EveryBranch ==
    \E c1, c2 \in Conns :
        /\ pc[c1] # "idle"
        /\ request[c1] = Request(TextMessy, TextBlank, None)
        /\ title[c1] = <<"a", " ", "\t", "b", "/", "c", ".">>
        /\ pc[c2] # "idle"
        /\ request[c2] = Request(TextBlank, TextBlank, None)
        /\ title[c2] = FallbackTitle

\* C16: on a bare subscription the first event is connected, the second is tools
\* and lists the names of the operations, every later event is a heartbeat, and
\* no start, result, progress, error or done event is ever sent.
Thm_C16_SubscriptionOrder ==
    \A c \in Conns :
        LET ev == events[c]
        IN  /\ pc[c] # "idle" => Len(ev) >= 1
            /\ pc[c] \in {"sse_check", "sse_sleep", "closed"} => Len(ev) >= 2
            /\ Len(ev) >= 1 => ev[1].type = "connected"
            /\ Len(ev) >= 2 =>
                  /\ ev[2].type = "tools"
                  /\ Len(ev[2].tools) = Cardinality(TOOL_HANDLERS)
                  /\ {ev[2].tools[i] : i \in 1..Len(ev[2].tools)} = TOOL_HANDLERS
            /\ \A n \in 3..Len(ev) : ev[n].type = "heartbeat"
            /\ \A n \in 1..Len(ev) :
                  ev[n].type \notin {"start", "result", "progress", "error", "done"}

Wit_C16_TwoHeartbeats ==
    \E c \in Conns :
        Types(c) = <<"connected", "tools", "heartbeat", "heartbeat">>

\* C17: consecutive heartbeats of a subscription are at least one interval
\* apart; heartbeats go on, up to the number followed, unless the peer leaves;
\* once the check of the loop has seen the peer gone the generator ends without
\* another event, and a stream that has ended stays as it is.
Thm_C17_HeartbeatsUntilDisconnect ==
    /\ [](\A c \in Conns :
            /\ CountType(c, "heartbeat") = Len(beats[c])
            /\ \A i \in 1..(Len(beats[c]) - 1) :
                  beats[c][i + 1] - beats[c][i] >= 30 * 1000)
    /\ [][\A c \in Conns :
            /\ (pc[c] = "sse_check" /\ disconnected[c] /\ pc'[c] # pc[c]) =>
                  (pc'[c] \in {"closed", "cancelled"} /\ events'[c] = events[c])
            /\ pc[c] \in {"closed", "cancelled"} =>
                  (pc'[c] = pc[c] /\ events'[c] = events[c])]_vars
    /\ \A c \in Conns :
          (pc[c] \in {"sse_check", "sse_sleep"})
              ~> (disconnected[c] \/ Len(beats[c]) = MaxBeats)

Wit_C17_ClosedAfterSleep ==
    \E c \in Conns :
        /\ pc[c] = "closed"
        /\ discAt[c].pc = "sse_sleep"
        /\ Len(beats[c]) = 2
        /\ Last(events[c]).type = "heartbeat"

\* C18: a direct call naming an operation the registry does not hold answers
\* success=false with an error naming it, runs no handler and leaves the store
\* as it was; a direct call of a registered operation answers with exactly the
\* result of its handler.
CE_C18_DirectCallAnswers ==
    ncalls > 0 =>
        IF lastCall.tool \notin TOOL_HANDLERS
        THEN /\ response = [status |-> 200,
                            body |-> [success |-> FALSE,
                                      error |-> <<"E:unknown-tool:", lastCall.tool>>]]
             /\ ~lastCall.invoked
             /\ store = lastCall.before
        ELSE /\ lastCall.invoked
             /\ response.status = 200
             /\ response.body = RunHandler(lastCall.tool, lastCall.params,
                                           lastCall.before, now, lastCall.fault).result

\* the handler invocations made for step i of connection c
CallsFor(c, i) == {m \in 1..Len(calls) : calls[m].conn = c /\ calls[m].step = i}

\* C19: in a run of the orchestrator the handler of a step is invoked at most
\* once, exactly once for every step that went through dispatch with a
\* registered operation and never for another; a failed result is followed by
\* the next step, and the invocations are as many as the result events.
Thm_C19_ExactlyOnce ==
    \A c \in Conns :
        /\ \A i \in 1..Len(plan[c]) :
              /\ Cardinality(CallsFor(c, i)) <= 1
              /\ (plan[c][i].tool \in TOOL_HANDLERS /\ idx[c] > i) =>
                    Cardinality(CallsFor(c, i)) = 1
              /\ (plan[c][i].tool \notin TOOL_HANDLERS \/ idx[c] <= i) => CallsFor(c, i) = {}
        /\ \A m \in 1..Len(calls) :
              (calls[m].conn = c /\ ~calls[m].result.success) => idx[c] > calls[m].step
        /\ Cardinality({m \in 1..Len(calls) : calls[m].conn = c}) = CountType(c, "result")

Wit_C19_FailureThenNextStep ==
    \E c \in Conns :
        /\ pc[c] = "closed"
        /\ Len(plan[c]) = 2
        /\ CallsFor(c, 1) # {}
        /\ \A m \in CallsFor(c, 1) : ~calls[m].result.success
        /\ CallsFor(c, 2) # {}
        /\ CountType(c, "result") = 2

\* the peer of connection c left after the check of step k had passed, before
\* or during the handler call of that step
LeftDuringStep(c, k) ==
    discAt[c].pc \in {"start", "dispatch"} /\ discAt[c].idx = k

\* C20: a disconnect is acted upon only at the check that opens a step.  When
\* the peer leaves after the check of step k has passed, before or during the
\* handler call of that step, the handler call of step k is still made, and the
\* run is given up at the check of step k+1, not before.
CE_C20_CooperativeCancel ==
    \A c \in Conns : \A k \in 1..Len(plan[c]) :
        LeftDuringStep(c, k) =>
            /\ cancelledAt[c] \in {0, k + 1}
            /\ (pc[c] \notin {"start", "dispatch"} /\ plan[c][k].tool \in TOOL_HANDLERS)
                  => Cardinality(CallsFor(c, k)) = 1

\* the store after the steps i.. of plan pl have run in a row on store st, with
\* no fault and nothing else touching the store
RECURSIVE RunAlone(_, _, _, _)
RunAlone(pl, i, st, t) ==
    IF i > Len(pl) \/ pl[i].tool \notin TOOL_HANDLERS THEN st
    ELSE RunAlone(pl, i + 1, RunHandler(pl[i].tool, pl[i].params, st, t, "none").store, t)

\* C21: nothing makes a plan wait for another plan that works on the same
\* document: a generator that has begun and not ended can always take its next
\* step, wherever the other one stands.
Thm_C21_NoMutualExclusion ==
    \A c \in Racers :
        pc[c] \in {"begun", "check", "start", "dispatch", "after_loop"} =>
            ENABLED AgentStep(c)

\* both plans ran on one identifier without a fault or a failed step and ended
\* with done, and the stored document is not the one either would have left alone
Wit_C21_BothDoneMixedDocument ==
    /\ filename[1] = filename[2]
    /\ faults = FaultsSpent
    /\ \A c \in Racers :
          /\ pc[c] = "closed"
          /\ Last(events[c]).type = "done"
          /\ Last(events[c]).data.filename = filename[1]
          /\ store # RunAlone(plan[c], 1, <<>>, now)
    /\ \A m \in 1..Len(calls) : calls[m].result.success
    /\ \E m \in 1..(Len(calls) - 1) : calls[m].conn # calls[m + 1].conn

\* the operations that work on a document that must exist
NeedsDocument ==
    {"read_document", "update_document", "delete_document", "add_table", "search_replace"}

\* the last direct call was one of these, with arguments its signature accepts,
\* and named no document that the store held
MissingDocumentCall ==
    /\ ncalls > 0
    /\ lastCall.tool \in NeedsDocument
    /\ Binds(lastCall.tool, lastCall.params)
    /\ \/ IsNone(lastCall.params.filename)
       \/ ~Exists(get_file_path(lastCall.params.filename), lastCall.before)

\* the existence test of the last direct call ran to its answer: the name is a
\* text, no component of its path is longer than NAME_MAX, and WORD_DIR could
\* be searched
ExistenceTestAnswered ==
    /\ ~IsNone(lastCall.params.filename)
    /\ LET parts == PathParts(get_file_path(lastCall.params.filename))
       IN  \A i \in 1..Len(parts) : ByteLen(parts[i]) <= NameMax
    /\ lastCall.fault # "access"

\* read_document, update_document, delete_document, add_table and
\* search_replace, called on a document the store does not hold, answer
\* success=false with the file-not-found error naming it and leave the store as
\* it was, after any sequence of calls.
CE_C22_AlwaysFileNotFound ==
    MissingDocumentCall =>
        /\ response = [status |-> 200,
                       body |-> [success |-> FALSE,
                                 error |-> <<"E:not-found:">> \o lastCall.params.filename]]
        /\ store = lastCall.before

\* C22: read_document, update_document, delete_document, add_table and
\* search_replace, called on a document the store does not hold, answer
\* success=false and leave the store as it was, after any sequence of calls.
\* The error is the file-not-found error naming the document whenever the
\* existence test runs to its answer; when the test itself raises, because the
\* name is null, a component of the path is longer than the file system takes,
\* or the directory cannot be searched, the error is the text of what it raised.
Thm_C22_MissingDocumentFails ==
    MissingDocumentCall =>
        /\ response.status = 200
        /\ response.body.success = FALSE
        /\ DOMAIN response.body = {"success", "error"}
        /\ store = lastCall.before
        /\ IF ExistenceTestAnswered
           THEN response.body.error = <<"E:not-found:">> \o lastCall.params.filename
           ELSE response.body.error \in {<<"E:type">>, <<"E:name-too-long">>, <<"E:access">>}

Wit_C22_UpdateAfterDelete ==
    /\ MissingDocumentCall
    /\ ExistenceTestAnswered
    /\ lastCall.tool = "update_document"
    /\ FileOf(get_file_path(lastCall.params.filename), lastCall.before) \in lastCall.deleted
    /\ ncalls = 3

\* C23: every step of a built plan names a registered operation, so its run
\* never emits an error event; when it ends with the peer still connected it has
\* emitted 2N+2 results and then done, and unless the peer disconnects it does end.
Thm_C23_BuiltPlanRunsToDone ==
    /\ [](\A c \in Conns :
            Built(c) =>
                /\ \A k \in 1..Len(plan[c]) :
                      plan[c][k].tool \in {"create_document", "read_document",
                                            "update_document", "delete_document",
                                            "list_documents", "add_table",
                                            "search_replace"}
                /\ ~HasType(c, "error")
                /\ pc[c] # "crashed"
                /\ (pc[c] = "closed" /\ ~disconnected[c]) =>
                      /\ CountType(c, "result") = 2 * Len(SectionLines) + 2
                      /\ CountType(c, "done") = 1
                      /\ Last(events[c]).type = "done")
    /\ \A c \in Conns :
          Built(c) ~> (disconnected[c]
                       \/ (pc[c] = "closed"
                            /\ CountType(c, "result") = 2 * Len(SectionLines) + 2))

Wit_C23_SixteenResultsThenDone ==
    \E c \in Conns :
        /\ Built(c)
        /\ pc[c] = "closed"
        /\ ~disconnected[c]
        /\ CountType(c, "result") = 16
        /\ Last(events[c]).type = "done"
        /\ request[c].title = None

\* the names a tools event lists
Listed(e) == {e.tools[i] : i \in 1..Len(e.tools)}

\* C24: the names GET /tools advertises and the names every tools event lists
\* are the keys of TOOLS, and they are exactly the names that dispatch to a
\* handler: none of them is unknown to the dispatcher, and no handler is left out.
Thm_C24_AdvertisedIsDispatchable ==
    /\ DOMAIN get_tools.tools = TOOL_HANDLERS
    /\ \A name \in DOMAIN get_tools.tools : ~IsUnknown(name)
    /\ \A c \in Conns : \A n \in 1..Len(events[c]) :
          events[c][n].type = "tools" =>
              /\ Listed(events[c][n]) = DOMAIN TOOLS
              /\ Listed(events[c][n]) = TOOL_HANDLERS
              /\ \A name \in Listed(events[c][n]) : ~IsUnknown(name)

Wit_C24_ToolsEventSent ==
    \E c \in Conns :
        /\ pc[c] = "sse_check"
        /\ Len(events[c]) = 2
        /\ events[c][2].type = "tools"
        /\ "search_replace" \in Listed(events[c][2])

\* the create of step 1 of the built plan of connection c answered success=false
CreateFailed(c) ==
    /\ Built(c)
    /\ CallsFor(c, 1) # {}
    /\ \A m \in CallsFor(c, 1) : ~calls[m].result.success

\* the create of step 1 failed and there is no file under the identifier
FailedWithoutDocument(c) ==
    CreateFailed(c) /\ ~Exists(get_file_path(filename[c]), store)

\* when the create of step 1 fails and the store holds no document under the
\* identifier of the plan, every later result is success=false with the
\* file-not-found error, and the run that is not cancelled still ends with done
\* naming the identifier.
CE_C25_AlwaysFileNotFound ==
    \A c \in Conns :
        FailedWithoutDocument(c) =>
            /\ \A n \in 1..Len(events[c]) :
                  (events[c][n].type = "result" /\ events[c][n].step > 1) =>
                      events[c][n].data =
                          [success |-> FALSE, error |-> <<"E:not-found:">> \o filename[c]]
            /\ (pc[c] = "closed" /\ cancelledAt[c] = 0) =>
                  /\ CountType(c, "result") = Len(plan[c])
                  /\ Last(events[c]).type = "done"
                  /\ Last(events[c]).data.filename = filename[c]

\* C25: when the create of step 1 fails and leaves no file under the identifier
\* of the plan, every later result is success=false: with the file-not-found
\* error when the existence test of that step runs to its answer, with the
\* error the test raised when the directory cannot be searched.  No later step
\* brings a file under the identifier into the store, and the run that is not
\* cancelled still ends with done naming the identifier.
Thm_C25_DoneWithoutDocument ==
    /\ [](\A c \in Conns :
            FailedWithoutDocument(c) =>
                /\ \A n \in 1..Len(events[c]) :
                      (events[c][n].type = "result" /\ events[c][n].step > 1) =>
                          \A m \in CallsFor(c, events[c][n].step) :
                              events[c][n].data =
                                  [success |-> FALSE,
                                   error |-> IF calls[m].fault = "access"
                                             THEN <<"E:access">>
                                             ELSE <<"E:not-found:">> \o filename[c]]
                /\ (pc[c] = "closed" /\ cancelledAt[c] = 0) =>
                      /\ CountType(c, "result") = Len(plan[c])
                      /\ Last(events[c]).type = "done"
                      /\ Last(events[c]).data.filename = filename[c])
    /\ [][\A c \in Conns :
            FailedWithoutDocument(c) => ~Exists(get_file_path(filename[c]), store')]_vars

\* a run whose create failed and left nothing, and whose later steps all
\* answered file-not-found, ended with done
Wit_C25_DoneNamesMissingDocument ==
    \E c \in Conns :
        /\ FailedWithoutDocument(c)
        /\ pc[c] = "closed"
        /\ cancelledAt[c] = 0
        /\ CountType(c, "result") = 16
        /\ Last(events[c]).type = "done"
        /\ store = <<>>
        /\ \A m \in 1..Len(calls) :
              calls[m].step > 1 =>
                  calls[m].result.error = <<"E:not-found:">> \o filename[c]

\* the stream of caller c has ended
CallEnded(c) == pc[c] \in {"closed", "crashed"}

\* the handler invocations logged for caller c
CallsOf(c) == {m \in 1..Len(calls) : calls[m].conn = c}

\* C26: the stream of a single-operation call opens with start; for an unknown
\* operation it is exactly [start, error] and no handler runs; for a registered
\* operation it is exactly [start, result, done], the handler having run once,
\* after start and before result.
CE_C26_CallStreamShapes ==
    \A c \in Callers :
        /\ pc[c] # "idle" =>
              events[c][1] = [type |-> "start", tool |-> request[c].tool]
        /\ pc[c] = "call_dispatch" => (Len(events[c]) = 1 /\ CallsOf(c) = {})
        /\ CallEnded(c) =>
              IF request[c].tool \notin TOOL_HANDLERS
              THEN /\ Types(c) = <<"start", "error">>
                   /\ events[c][2].error = <<"E:unknown-tool:", request[c].tool>>
                   /\ CallsOf(c) = {}
              ELSE /\ Types(c) = <<"start", "result", "done">>
                   /\ Cardinality(CallsOf(c)) = 1
                   /\ \A m \in CallsOf(c) : events[c][2].data = calls[m].result

====
